---- MODULE Spec2Model ----
(***************************************************************************)
(* State machine of one GoveeLight entity (src/light.py): the believed    *)
(* on/off state, the skip-next-update flag, and the coroutines            *)
(* async_turn_on / async_turn_off / async_update / async_added_to_hass,   *)
(* each split at its single suspension point (await self._send_command).  *)
(* Python names starting with an underscore lose it: _state is state.     *)
(***************************************************************************)
EXTENDS Integers, Sequences, FiniteSets, TLC

\* Number of entry-point invocations the host makes in one behaviour.
MaxCalls == 4

ON_OFF == "devices.capabilities.on_off"
RANGE == "devices.capabilities.range"
HTTP_OK == 200

\* dict.get(key, default)
Get(d, key, default) == IF key \in DOMAIN d THEN d[key] ELSE default

\* Index of the first element of seq with item["type"] = name, 0 for None:
\* next((item for item in seq if item["type"] == name), None)
RECURSIVE NextFrom(_, _, _)
NextFrom(seq, name, i) ==
    IF i > Len(seq) THEN 0
    ELSE IF seq[i]["type"] = name THEN i
    ELSE NextFrom(seq, name, i + 1)

NextOfType(seq, name) == NextFrom(seq, name, 1)

\* The empty dict {} (a function with the empty domain).
EmptyDict == [k \in {} |-> 0]

\* (variant) the search keeps the last matching item instead of the first
RECURSIVE LastFrom(_, _, _)
LastFrom(seq, name, i) ==
    IF i = 0 THEN 0
    ELSE IF seq[i]["type"] = name THEN i
    ELSE LastFrom(seq, name, i - 1)

build_capability_last(dev, name, value) ==
    LET caps == Get(dev, "capabilities", <<>>)
        i == LastFrom(caps, name, Len(caps))
    IN  IF i = 0 THEN EmptyDict
        ELSE [type |-> name,
              instance |-> Get(caps[i], "instance", "powerSwitch"),
              value |-> value]

\* (variant) a missing capability is replaced by a default payload
build_capability_default(dev, name, value) ==
    LET caps == Get(dev, "capabilities", <<>>)
        i == NextOfType(caps, name)
    IN  [type |-> name,
         instance |-> IF i = 0 THEN "powerSwitch"
                      ELSE Get(caps[i], "instance", "powerSwitch"),
         value |-> value]

\* GoveeLight._build_capability
build_capability(dev, name, value) ==
    LET caps == Get(dev, "capabilities", <<>>)
        i == NextOfType(caps, name)
    IN  IF i = 0 THEN EmptyDict
        ELSE [type |-> name,
              instance |-> Get(caps[i], "instance", "powerSwitch"),
              value |-> value]

\* Device descriptors handed to the constructor (all of the supported sku).
DeviceTwoSwitches ==
    [sku |-> "H600D", device |-> "CC:DD", deviceName |-> "Strip",
     capabilities |-> <<[type |-> RANGE, instance |-> "brightness"],
                        [type |-> ON_OFF],
                        [type |-> ON_OFF, instance |-> "second"]>>]

DeviceNoCapabilities ==
    [sku |-> "H600D", device |-> "EE:FF", deviceName |-> "Bare"]

Devices == {DeviceTwoSwitches, DeviceNoCapabilities}

\* Bodies of the device-state response: payload.capabilities lists.
OnOffItem(v) == [type |-> ON_OFF, state |-> [value |-> v]]
RangeItem(v) == [type |-> RANGE, state |-> [value |-> v]]

CapabilityLists ==
    { <<OnOffItem(1)>>,
      <<OnOffItem(0)>>,
      <<RangeItem(1), OnOffItem(2), OnOffItem(1)>>,
      <<RangeItem(1)>> }

StateJson(caps) == [payload |-> [capabilities |-> caps]]

\* What one network exchange can produce: a transport failure (the request
\* raises), or a status with a parsed JSON body.
TransportError == [error |-> TRUE, status |-> 0, json |-> StateJson(<<>>)]
NoExchange == [error |-> FALSE, status |-> 0, json |-> StateJson(<<>>)]
Reply(status, caps) == [error |-> FALSE, status |-> status, json |-> StateJson(caps)]

\* Statuses the vendor API answers with: 200 and one representative non-200.
Statuses == {HTTP_OK, 404}

ControlResponses == {TransportError} \cup {Reply(s, <<>>) : s \in Statuses}
StateResponses ==
    {TransportError}
        \cup {Reply(s, <<>>) : s \in Statuses \ {HTTP_OK}}
        \cup {Reply(HTTP_OK, caps) : caps \in CapabilityLists}

VARIABLES
    device,            \* self._device
    state,             \* self._state
    skip_next_update,  \* self._skip_next_update
    added,             \* async_added_to_hass has been invoked
    tasks,             \* coroutines suspended at await self._send_command
    ncalls,            \* entry-point invocations so far
    hist,              \* completed invocations, in order of completion
    setup,             \* async_setup_entry: where it is, and what it fetched
    lights             \* the entities handed to async_add_entities

vars == <<device, state, skip_next_update, added, tasks, ncalls, hist,
          setup, lights>>

\* The variables of async_setup_entry, which no entity method touches.
setup_vars == <<setup, lights>>

\* GoveeLight.__init__ (lines 53-61): the fields of a new entity.
GoveeLight(dev) ==
    [device |-> dev, state |-> FALSE, name |-> dev["deviceName"],
     unique_id |-> dev["device"], brightness |-> 255,
     rgb_color |-> <<255, 255, 255>>, skip_next_update |-> FALSE]

\* What the device-list request of lines 28-34 produced.
DevicesReply(status, body) == [error |-> FALSE, status |-> status, json |-> body]

\* (variant) a non-200 answer is posted once more
send_command_retry(request, r) ==
    [posts |-> IF ~r.error /\ r.status # HTTP_OK THEN <<request, request>>
               ELSE <<request>>,
     status |-> r.status, json |-> r.json]

\* GoveeLight._send_command with the exchange r: one POST (line 192), and the
\* status and parsed body handed back whatever the status (lines 193-196).
send_command(request, r) ==
    [posts |-> <<request>>, status |-> r.status, json |-> r.json]

\* (variant) the exchange wrapped in a handler that returns a status
send_command_swallows(r) == FALSE
\* lines 191-196: nothing catches what session.post or response.json raise,
\* so a failed exchange leaves _send_command, and its caller, by exception.
send_command_raises(r) == r.error

Remove(seq, i) == SubSeq(seq, 1, i - 1) \o SubSeq(seq, i + 1, Len(seq))

\* The envelopes of lines 102-110 / 128-136 and 157-164 (requestId omitted:
\* a fresh uuid that nothing reads back).
ControlRequest(value) ==
    [url |-> "/device/control",
     payload |-> [sku |-> device["sku"], device |-> device["device"],
                  capability |-> build_capability(device, ON_OFF, value)]]

StateRequest ==
    [url |-> "/device/state",
     payload |-> [sku |-> device["sku"], device |-> device["device"]]]

\* A coroutine suspended in _send_command, with the values it saw on entry:
\* the fields, the calls suspended at that moment (overlaps) and the number
\* of calls that had ended (seen).
Task(op, request) ==
    [id |-> ncalls + 1, op |-> op, request |-> request,
     pre_state |-> state, pre_skip |-> skip_next_update,
     overlaps |-> {tasks[k].id : k \in DOMAIN tasks}, seen |-> Len(hist)]

\* The record of an invocation that has ended: how it ended, what it sent and
\* received, how often it called async_write_ha_state, and the entity's
\* fields on entry and on exit.
Ended(t, outcome, resp, requests, writes, st, sk) ==
    [id |-> t.id, op |-> t.op, outcome |-> outcome, resp |-> resp,
     requests |-> requests, writes |-> writes,
     pre_state |-> t.pre_state, pre_skip |-> t.pre_skip,
     overlaps |-> t.overlaps, seen |-> t.seen,
     post_state |-> st, post_skip |-> sk]

\* GoveeLight.__init__
Init ==
    /\ device \in Devices
    /\ state = FALSE
    /\ skip_next_update = FALSE
    /\ added = FALSE
    /\ tasks = <<>>
    /\ ncalls = 0
    /\ hist = <<>>
    /\ setup = [pc |-> "added",
                response |-> DevicesReply(HTTP_OK, [data |-> <<device>>])]
    /\ lights = <<GoveeLight(device)>>

\* ---- async_turn_on ----
\* (variant) the else branch resets the state to off
turn_on_state_reset(status, st) == IF status = HTTP_OK THEN TRUE ELSE FALSE
\* (variant) line 114 missing: the 200 branch does not re-assert the state
turn_on_state_unasserted(status, st) == st
\* lines 113-119: the 200 branch re-asserts the state, the else branch logs.
turn_on_state(status, st) == IF status = HTTP_OK THEN TRUE ELSE st
\* line 121
turn_on_writes(status) == 1
\* (variant) line 122 missing: the flag is left as it was
turn_on_skip_unset(status, sk) == sk
\* line 122
turn_on_skip(status, sk) == TRUE

\* (variant) the flag of line 122 set before the request is sent
async_turn_on_flag_early(n) ==
    /\ ncalls < MaxCalls
    /\ Len(tasks) < n
    /\ state' = TRUE
    /\ skip_next_update' = TRUE
    /\ tasks' = Append(tasks, Task("turn_on", ControlRequest(1)))
    /\ ncalls' = ncalls + 1
    /\ UNCHANGED <<device, added, hist>>
    /\ UNCHANGED setup_vars

\* lines 98-111, up to the await; n is the number of calls the host overlaps.
async_turn_on(n) ==
    /\ ncalls < MaxCalls
    /\ Len(tasks) < n
    /\ state' = TRUE
    /\ tasks' = Append(tasks, Task("turn_on", ControlRequest(1)))
    /\ ncalls' = ncalls + 1
    /\ UNCHANGED <<device, skip_next_update, added, hist>>
    /\ UNCHANGED setup_vars

\* lines 111-122, from the await on; a transport failure propagates.
async_turn_on_resume ==
    \E i \in DOMAIN tasks, r \in ControlResponses :
        LET t == tasks[i] IN
        /\ t.op = "turn_on"
        /\ tasks' = Remove(tasks, i)
        /\ IF send_command_raises(r)
           THEN /\ UNCHANGED <<state, skip_next_update>>
                /\ hist' = Append(hist, Ended(t, "raised", r, send_command(t.request, r).posts, 0,
                                               state, skip_next_update))
           ELSE /\ state' = turn_on_state(r.status, state)
                /\ skip_next_update' = turn_on_skip(r.status, skip_next_update)
                /\ hist' = Append(hist, Ended(t, "returned", r, send_command(t.request, r).posts,
                                               turn_on_writes(r.status),
                                               state', skip_next_update'))
        /\ UNCHANGED <<device, added, ncalls>>
        /\ UNCHANGED setup_vars

\* ---- async_turn_off ----
\* lines 139-145
turn_off_state(status, st) == IF status = HTTP_OK THEN FALSE ELSE st
\* (variant) line 147 inside the 200 branch
turn_off_writes_on_success(status) == IF status = HTTP_OK THEN 1 ELSE 0
\* line 147
turn_off_writes(status) == 1
\* (variant) line 148 inside the 200 branch
turn_off_skip_on_success(status, sk) == IF status = HTTP_OK THEN TRUE ELSE sk
\* line 148
turn_off_skip(status, sk) == TRUE

\* lines 124-137, up to the await
async_turn_off(n) ==
    /\ ncalls < MaxCalls
    /\ Len(tasks) < n
    /\ state' = FALSE
    /\ tasks' = Append(tasks, Task("turn_off", ControlRequest(0)))
    /\ ncalls' = ncalls + 1
    /\ UNCHANGED <<device, skip_next_update, added, hist>>
    /\ UNCHANGED setup_vars

\* lines 137-148, from the await on
async_turn_off_resume ==
    \E i \in DOMAIN tasks, r \in ControlResponses :
        LET t == tasks[i] IN
        /\ t.op = "turn_off"
        /\ tasks' = Remove(tasks, i)
        /\ IF send_command_raises(r)
           THEN /\ UNCHANGED <<state, skip_next_update>>
                /\ hist' = Append(hist, Ended(t, "raised", r, send_command(t.request, r).posts, 0,
                                               state, skip_next_update))
           ELSE /\ state' = turn_off_state(r.status, state)
                /\ skip_next_update' = turn_off_skip(r.status, skip_next_update)
                /\ hist' = Append(hist, Ended(t, "returned", r, send_command(t.request, r).posts,
                                               turn_off_writes(r.status),
                                               state', skip_next_update'))
        /\ UNCHANGED <<device, added, ncalls>>
        /\ UNCHANGED setup_vars

\* ---- async_update ----
\* line 152: the test of the flag
update_skips(sk) == sk
\* (variant) line 154 missing: the flag stays set
update_skip_clear_missing(sk) == sk
\* line 154: the skip branch clears the flag
update_skip_clear(sk) == FALSE
\* (variant) next() defaulting to the first item of the list instead of None
update_on_off_or_first(json) ==
    IF NextOfType(json["payload"]["capabilities"], ON_OFF) = 0
    THEN 1
    ELSE NextOfType(json["payload"]["capabilities"], ON_OFF)
\* lines 168-175: the first on/off item of the reported list, 0 for None
update_on_off(json) == NextOfType(json["payload"]["capabilities"], ON_OFF)
\* (variant) line 176 testing truthiness instead of == 1
update_state_truthy(json) ==
    json["payload"]["capabilities"][update_on_off(json)]["state"]["value"] # 0
\* line 176 (evaluated when the item exists; subscripting None raises)
update_state(json) ==
    json["payload"]["capabilities"][update_on_off(json)]["state"]["value"] = 1
\* (variant) the else branch of lines 178-179 resets the state to off
update_failed_state_off(st) == FALSE
\* lines 178-179: a non-200 status is logged, the state stays
update_failed_state(st) == st
\* (variant) a fetch re-arms the flag
update_fetched_skip_toggle(sk) == ~sk
\* lines 166-181: nothing after the await assigns the flag
update_fetched_skip(sk) == sk
\* (variant) line 181 inside the 200 branch
update_writes_on_success(status) == IF status = HTTP_OK THEN 1 ELSE 0
\* line 181
update_writes(status) == 1

\* lines 150-166, up to the return of the skip branch or to the await, for
\* the entry point op (async_update itself or async_added_to_hass).
update_enter(op, n) ==
    /\ ncalls < MaxCalls
    /\ Len(tasks) < n
    /\ ncalls' = ncalls + 1
    /\ IF update_skips(skip_next_update)
       THEN /\ skip_next_update' = update_skip_clear(skip_next_update)
            /\ hist' = Append(hist, Ended(Task(op, StateRequest), "skipped",
                                           NoExchange, <<>>, 0,
                                           state, skip_next_update'))
            /\ UNCHANGED tasks
       ELSE /\ tasks' = Append(tasks, Task(op, StateRequest))
            /\ UNCHANGED <<skip_next_update, hist>>
    /\ UNCHANGED <<device, state>>
    /\ UNCHANGED setup_vars

\* the host's scheduled poll
async_update(n) ==
    /\ update_enter("update", n)
    /\ UNCHANGED added

\* lines 183-185: the entity-added callback awaits async_update; the host
\* invokes it once per entity.
async_added_to_hass(n) ==
    /\ ~added
    /\ added' = TRUE
    /\ update_enter("added_to_hass", n)

\* lines 166-181, from the await on. A transport failure propagates, and so
\* does the TypeError of line 176 when the 200 body holds no on/off item.
async_update_resume ==
    \E i \in DOMAIN tasks, r \in StateResponses :
        LET t == tasks[i] IN
        /\ t.op \in {"update", "added_to_hass"}
        /\ tasks' = Remove(tasks, i)
        /\ IF send_command_raises(r)
              \/ (r.status = HTTP_OK /\ update_on_off(r.json) = 0)
           THEN /\ UNCHANGED <<state, skip_next_update>>
                /\ hist' = Append(hist, Ended(t, "raised", r, send_command(t.request, r).posts, 0,
                                               state, skip_next_update))
           ELSE /\ state' = IF r.status = HTTP_OK
                            THEN update_state(r.json)
                            ELSE update_failed_state(state)
                /\ skip_next_update' = update_fetched_skip(skip_next_update)
                /\ hist' = Append(hist, Ended(t, "returned", r, send_command(t.request, r).posts,
                                               update_writes(r.status),
                                               state', skip_next_update'))
        /\ UNCHANGED <<device, added, ncalls>>
        /\ UNCHANGED setup_vars

\* The host drives the entry points of an entity one at a time: a call starts
\* only when no other call of the entity is suspended.
Next ==
    \/ async_turn_on(1)
    \/ async_turn_on_resume
    \/ async_turn_off(1)
    \/ async_turn_off_resume
    \/ async_update(1)
    \/ async_added_to_hass(1)
    \/ async_update_resume

Spec == Init /\ [][Next]_vars

\* ---- vocabulary of the properties ----
IsCommand(e) == e.op \in {"turn_on", "turn_off"}
IsUpdate(e) == e.op \in {"update", "added_to_hass"}
Returned(e) == e.outcome = "returned"
Skipped(e) == e.outcome = "skipped"
Fetched(e) == Len(e.requests) > 0
Succeeded(e) == Returned(e) /\ e.resp.status = HTTP_OK
Failed(e) == Returned(e) /\ e.resp.status # HTTP_OK
Optimistic(e) == (e.op = "turn_on")
Last == hist[Len(hist)]

\* C1: a turn_on (turn_off) answered 200 returns with state true (false); of
\* the update calls that follow it with no command in between, the first is
\* skipped without a request and the one after it sends a request.
C1_SuccessThenOneSkip ==
    \A i \in DOMAIN hist :
        (IsCommand(hist[i]) /\ Succeeded(hist[i])) =>
            /\ hist[i].post_state = Optimistic(hist[i])
            /\ (i + 1 \in DOMAIN hist /\ IsUpdate(hist[i + 1])) =>
                   (Skipped(hist[i + 1]) /\ ~Fetched(hist[i + 1]))
            /\ (i + 2 \in DOMAIN hist /\ IsUpdate(hist[i + 1])
                                      /\ IsUpdate(hist[i + 2])) =>
                   Fetched(hist[i + 2])

C1_Witness ==
    \E i \in DOMAIN hist :
        /\ i + 2 \in DOMAIN hist
        /\ hist[i].op = "turn_off" /\ Succeeded(hist[i])
        /\ hist[i].pre_state = TRUE /\ hist[i].post_state = FALSE
        /\ hist[i + 1].op = "update" /\ Skipped(hist[i + 1])
        /\ hist[i + 2].op = "update" /\ Fetched(hist[i + 2])

\* C2: a turn_on / turn_off answered with a non-200 status returns with the
\* optimistic value (true / false), whatever the state was before the call.
C2_FailureKeepsOptimistic ==
    \A i \in DOMAIN hist :
        (IsCommand(hist[i]) /\ Failed(hist[i])) =>
            hist[i].post_state = Optimistic(hist[i])

C2_Witness ==
    /\ \E i \in DOMAIN hist :
           hist[i].op = "turn_on" /\ Failed(hist[i]) /\ hist[i].pre_state = FALSE
    /\ \E i \in DOMAIN hist :
           hist[i].op = "turn_off" /\ Failed(hist[i]) /\ hist[i].pre_state = TRUE

\* C3: skip_next_update is true only if a command has been issued and no
\* update has been attempted since; it is false at construction and false
\* after every update attempt.
C3_SkipOnlyBetweenCommandAndUpdate ==
    /\ skip_next_update =>
           /\ \E i \in DOMAIN hist :
                  /\ IsCommand(hist[i])
                  /\ \A j \in (i + 1)..Len(hist) : ~IsUpdate(hist[j])
           /\ \A k \in DOMAIN tasks : ~IsUpdate(tasks[k])
    /\ ncalls = 0 => ~skip_next_update
    /\ (hist # <<>> /\ IsUpdate(Last)) => ~skip_next_update

C3_Witness ==
    /\ Len(hist) >= 3
    /\ skip_next_update
    /\ \E j \in DOMAIN hist : IsUpdate(hist[j]) /\ Skipped(hist[j])

\* The commands that received a response, the updates, the skipped updates.
Commands == {i \in DOMAIN hist : IsCommand(hist[i]) /\ Returned(hist[i])}
Updates == {j \in DOMAIN hist : IsUpdate(hist[j])}
SkippedUpdates == {j \in Updates : Skipped(hist[j])}
Injective(f) == \A a, b \in DOMAIN f : a # b => f[a] # f[b]

\* C4 as claimed: exactly one update is skipped per command. Each command
\* that got a response has its own skipped update among the updates after
\* it (whenever the updates after the commands suffice to give each command
\* one of its own), and each skipped update has its own command before it.
C4_OneSkipPerCommand ==
    /\ (\E g \in [Commands -> Updates] :
            Injective(g) /\ \A i \in Commands : g[i] > i)
       => (\E f \in [Commands -> SkippedUpdates] :
               Injective(f) /\ \A i \in Commands : f[i] > i)
    /\ \E h \in [SkippedUpdates -> Commands] :
           Injective(h) /\ \A j \in SkippedUpdates : h[j] < j

\* C4 (amended): at most one update is skipped per command. An update is
\* skipped exactly when a command that got a response precedes it with no
\* update between the two, so commands with no update between them share
\* one skipped update, and each skipped update has its own command before it.
C4_AtMostOneSkipPerCommand ==
    /\ \A j \in Updates :
           Skipped(hist[j]) <=>
               \E i \in Commands :
                   i < j /\ \A k \in (i + 1)..(j - 1) : k \notin Updates
    /\ \E h \in [SkippedUpdates -> Commands] :
           Injective(h) /\ \A j \in SkippedUpdates : h[j] < j

C4_Witness ==
    /\ Len(hist) = 4
    /\ hist[1].op = "turn_on" /\ Failed(hist[1])
    /\ hist[2].op = "turn_off" /\ Succeeded(hist[2])
    /\ hist[3].op = "update" /\ Skipped(hist[3])
    /\ hist[4].op = "update" /\ Fetched(hist[4])

\* C5: of two update calls in a row the second always sends a request, and
\* when the flag is clear at the first call both do.
C5_SecondUpdateFetches ==
    \A i \in DOMAIN hist :
        (i + 1 \in DOMAIN hist /\ IsUpdate(hist[i]) /\ IsUpdate(hist[i + 1])) =>
            /\ Fetched(hist[i + 1])
            /\ ~hist[i].pre_skip => Fetched(hist[i])

C5_Witness ==
    \E i \in DOMAIN hist :
        /\ i + 2 \in DOMAIN hist
        /\ hist[i].op = "update" /\ hist[i].pre_skip /\ Skipped(hist[i])
        /\ hist[i + 1].op = "update" /\ Fetched(hist[i + 1]) /\ Returned(hist[i + 1])
        /\ hist[i + 2].op = "update" /\ Fetched(hist[i + 2])

\* C6 as claimed: async_added_to_hass sends exactly one state request, also
\* when the flag is set at the moment it is invoked.
C6_AddedAlwaysFetches ==
    \A i \in DOMAIN hist :
        hist[i].op = "added_to_hass" => Len(hist[i].requests) = 1

\* C7: a turn_on / turn_off that receives a response, 200 or not, calls
\* async_write_ha_state exactly once before it returns.
C7_CommandWritesOnce ==
    \A i \in DOMAIN hist :
        (IsCommand(hist[i]) /\ Returned(hist[i])) => hist[i].writes = 1

C7_Witness ==
    /\ \E i \in DOMAIN hist : hist[i].op = "turn_off" /\ Failed(hist[i])
    /\ \E i \in DOMAIN hist : hist[i].op = "turn_off" /\ Succeeded(hist[i])
    /\ \E i \in DOMAIN hist : hist[i].op = "turn_on" /\ Failed(hist[i])
    /\ \E i \in DOMAIN hist : hist[i].op = "turn_on" /\ Succeeded(hist[i])

\* C8 as claimed: an update that is skipped, one answered 200 and one
\* answered non-200 each end with one call of async_write_ha_state.
C8_UpdateAlwaysWrites ==
    \A i \in DOMAIN hist :
        (IsUpdate(hist[i]) /\ (Skipped(hist[i]) \/ Returned(hist[i]))) =>
            hist[i].writes = 1

\* C8 (amended): an update that is not skipped and runs to its end (answered
\* 200 with an on/off item in the list, or answered non-200) calls
\* async_write_ha_state exactly once; a skipped update returns without it.
C8_UpdateWritesUnlessSkipped ==
    \A i \in DOMAIN hist :
        IsUpdate(hist[i]) =>
            /\ Returned(hist[i]) => hist[i].writes = 1
            /\ Skipped(hist[i]) => hist[i].writes = 0

C8_Witness ==
    /\ \E i \in DOMAIN hist : IsUpdate(hist[i]) /\ Skipped(hist[i])
    /\ \E i \in DOMAIN hist : IsUpdate(hist[i]) /\ Succeeded(hist[i])
    /\ \E i \in DOMAIN hist : IsUpdate(hist[i]) /\ Failed(hist[i])

\* The value the first on/off item of a body reports, read off the list
\* without the model's search.
HasOnOff(caps) == \E k \in DOMAIN caps : caps[k]["type"] = ON_OFF
FirstOnOffValue(caps) ==
    LET k == CHOOSE k \in DOMAIN caps :
                 /\ caps[k]["type"] = ON_OFF
                 /\ \A m \in 1..(k - 1) : caps[m]["type"] # ON_OFF
    IN  caps[k]["state"]["value"]
Reported(e) == e.resp.json["payload"]["capabilities"]

\* C9: after a non-skipped update answered 200 with an on/off item in the
\* list, state is true exactly when the first on/off item reports 1,
\* whatever state was before.
C9_UpdateTakesFirstOnOff ==
    \A i \in DOMAIN hist :
        (IsUpdate(hist[i]) /\ Fetched(hist[i]) /\ ~hist[i].resp.error
            /\ hist[i].resp.status = HTTP_OK /\ HasOnOff(Reported(hist[i]))) =>
            hist[i].post_state = (FirstOnOffValue(Reported(hist[i])) = 1)

C9_Witness ==
    /\ \E i \in DOMAIN hist :
           /\ IsUpdate(hist[i]) /\ Succeeded(hist[i])
           /\ Len(Reported(hist[i])) = 3
           /\ FirstOnOffValue(Reported(hist[i])) = 2
           /\ hist[i].pre_state = TRUE /\ hist[i].post_state = FALSE
    /\ \E i \in DOMAIN hist :
           /\ IsUpdate(hist[i]) /\ Succeeded(hist[i])
           /\ hist[i].pre_state = FALSE /\ hist[i].post_state = TRUE

\* C10: a non-skipped update answered with a non-200 status leaves state and
\* skip_next_update as they were before it.
C10_FailedUpdateChangesNothing ==
    \A i \in DOMAIN hist :
        (IsUpdate(hist[i]) /\ Fetched(hist[i]) /\ Failed(hist[i])) =>
            /\ hist[i].post_state = hist[i].pre_state
            /\ hist[i].post_skip = hist[i].pre_skip

C10_Witness ==
    \E i \in DOMAIN hist :
        /\ hist[i].op = "update" /\ Fetched(hist[i]) /\ Failed(hist[i])
        /\ hist[i].pre_state = TRUE /\ hist[i].post_state = TRUE
        /\ hist[i].writes = 1

\* ---- the capability resolver on arbitrary capability lists ----
\* Longest capability list of a device descriptor.
MaxCaps == 3
\* Commands the host issues on such a device.
MaxResolveCalls == 1

\* Capability descriptors: a type, with or without an instance name.
CapabilityItems ==
    {[type |-> t] : t \in {ON_OFF, RANGE}}
        \cup {[type |-> t, instance |-> n] :
                 t \in {ON_OFF, RANGE}, n \in {"powerSwitch", "nightlight"}}

\* Device descriptors with every capability list up to MaxCaps items, and
\* the descriptor without a capabilities key.
ResolveDevices ==
    {DeviceNoCapabilities}
        \cup {[sku |-> "H600D", device |-> "AA:BB", deviceName |-> "Lamp",
               capabilities |-> caps] :
                 caps \in UNION {[1..n -> CapabilityItems] : n \in 0..MaxCaps}}

InitResolve ==
    /\ device \in ResolveDevices
    /\ state = FALSE
    /\ skip_next_update = FALSE
    /\ added = FALSE
    /\ tasks = <<>>
    /\ ncalls = 0
    /\ hist = <<>>
    /\ setup = [pc |-> "added",
                response |-> DevicesReply(HTTP_OK, [data |-> <<device>>])]
    /\ lights = <<GoveeLight(device)>>

\* The host issues commands, one at a time.
NextResolve ==
    \/ (ncalls < MaxResolveCalls /\ async_turn_on(1))
    \/ async_turn_on_resume
    \/ (ncalls < MaxResolveCalls /\ async_turn_off(1))
    \/ async_turn_off_resume

SpecResolve == InitResolve /\ [][NextResolve]_vars

\* The capability list of the device, [] when the key is absent.
DeviceCaps == IF "capabilities" \in DOMAIN device THEN device["capabilities"] ELSE <<>>
HasType(caps, name) == \E k \in DOMAIN caps : caps[k]["type"] = name
FirstOfType(caps, name) ==
    CHOOSE k \in DOMAIN caps :
        /\ caps[k]["type"] = name
        /\ \A m \in 1..(k - 1) : caps[m]["type"] # name
\* What the claim says the resolver returns when an entry matches.
Resolved(caps, name, value) ==
    LET entry == caps[FirstOfType(caps, name)]
    IN  [type |-> name,
         instance |-> IF "instance" \in DOMAIN entry THEN entry["instance"]
                      ELSE "powerSwitch",
         value |-> value]
SentCapability(e) == e.requests[1]["payload"]["capability"]
CommandValue(e) == IF e.op = "turn_on" THEN 1 ELSE 0

\* C11: when the list holds an entry of the asked type, the resolver returns
\* {type, instance of the first such entry or "powerSwitch" when it has none,
\* value}; the entries after the first match do not influence the result.
\* Checked on the resolver itself for both types and on the capability that
\* each command has put in its control request.
C11_ResolveFirstMatch ==
    /\ \A name \in {ON_OFF, RANGE}, value \in {0, 1} :
           HasType(DeviceCaps, name) =>
               /\ build_capability(device, name, value)
                      = Resolved(DeviceCaps, name, value)
               /\ build_capability(
                      [device EXCEPT !["capabilities"] =
                           SubSeq(DeviceCaps, 1, FirstOfType(DeviceCaps, name))],
                      name, value)
                      = build_capability(device, name, value)
    /\ \A i \in DOMAIN hist :
           (IsCommand(hist[i]) /\ HasType(DeviceCaps, ON_OFF)) =>
               SentCapability(hist[i])
                   = Resolved(DeviceCaps, ON_OFF, CommandValue(hist[i]))

C11_Witness ==
    /\ Len(DeviceCaps) = 3
    /\ DeviceCaps[1]["type"] = RANGE
    /\ DeviceCaps[2] = [type |-> ON_OFF]
    /\ DeviceCaps[3] = [type |-> ON_OFF, instance |-> "nightlight"]
    /\ hist # <<>>
    /\ Last.op = "turn_on"
    /\ SentCapability(Last) =
           [type |-> ON_OFF, instance |-> "powerSwitch", value |-> 1]

\* C12: when the device's list has no on/off entry (an empty or absent list
\* included), the resolver returns the empty payload and the command goes
\* on: it applies the optimistic state, sends exactly one control request
\* carrying the empty capability, and treats the response as for any other
\* command (200 or not: state optimistic, one write, flag set; a transport
\* failure propagates with the optimistic state applied).
C12_MissingCapabilitySentEmpty ==
    ~HasType(DeviceCaps, ON_OFF) =>
        /\ \A value \in {0, 1} :
               DOMAIN build_capability(device, ON_OFF, value) = {}
        /\ \A k \in DOMAIN tasks :
               IsCommand(tasks[k]) =>
                   /\ state = Optimistic(tasks[k])
                   /\ tasks[k].request["url"] = "/device/control"
                   /\ DOMAIN tasks[k].request["payload"]["capability"] = {}
        /\ \A i \in DOMAIN hist :
               IsCommand(hist[i]) =>
                   /\ Len(hist[i].requests) = 1
                   /\ hist[i].requests[1]["url"] = "/device/control"
                   /\ DOMAIN SentCapability(hist[i]) = {}
                   /\ hist[i].post_state = Optimistic(hist[i])
                   /\ Returned(hist[i]) =>
                          (hist[i].writes = 1 /\ hist[i].post_skip)
                   /\ ~Returned(hist[i]) =>
                          (hist[i].outcome = "raised" /\ hist[i].writes = 0)

C12_Witness ==
    /\ "capabilities" \notin DOMAIN device
    /\ hist # <<>>
    /\ Last.op = "turn_on" /\ Succeeded(Last)
    /\ Last.pre_state = FALSE /\ Last.post_state = TRUE
    /\ DOMAIN SentCapability(Last) = {}

\* C13: no retry. Every turn_on / turn_off invocation posts exactly one
\* control request and every update that is not skipped posts exactly one
\* state request, whatever the answer; after a non-200 answer the invocation
\* ends with that one request, and no invocation ends twice.
C13_OneRequestPerInvocation ==
    /\ \A i \in DOMAIN hist :
           /\ IsCommand(hist[i]) =>
                  /\ Len(hist[i].requests) = 1
                  /\ hist[i].requests[1]["url"] = "/device/control"
           /\ (IsUpdate(hist[i]) /\ ~Skipped(hist[i])) =>
                  /\ Len(hist[i].requests) = 1
                  /\ hist[i].requests[1]["url"] = "/device/state"
           /\ (IsUpdate(hist[i]) /\ Skipped(hist[i])) =>
                  Len(hist[i].requests) = 0
    /\ \A i, j \in DOMAIN hist : i # j => hist[i].id # hist[j].id
    /\ \A i \in DOMAIN hist, k \in DOMAIN tasks : hist[i].id # tasks[k].id

C13_Witness ==
    /\ \E i \in DOMAIN hist : IsCommand(hist[i]) /\ Failed(hist[i])
    /\ \E i \in DOMAIN hist : IsCommand(hist[i]) /\ Succeeded(hist[i])
    /\ \E i \in DOMAIN hist :
           IsUpdate(hist[i]) /\ Failed(hist[i]) /\ Len(hist[i].requests) = 1
    /\ \E i \in DOMAIN hist : IsUpdate(hist[i]) /\ Succeeded(hist[i])

\* ---- async_setup_entry ----
\* Longest device list the vendor API returns.
MaxDevices == 3

\* Devices of the account: three of the supported sku, one of another sku,
\* one without a sku key.
DeviceWithSwitch ==
    [sku |-> "H600D", device |-> "AA:BB", deviceName |-> "Lamp",
     capabilities |-> <<[type |-> ON_OFF, instance |-> "powerSwitch"]>>]

DeviceOtherSku ==
    [sku |-> "H600X", device |-> "11:22", deviceName |-> "Plug",
     capabilities |-> <<[type |-> ON_OFF, instance |-> "powerSwitch"]>>]

DeviceNoSku == [device |-> "33:44", deviceName |-> "Hub"]

AccountDevices ==
    {DeviceWithSwitch, DeviceTwoSwitches, DeviceNoCapabilities, DeviceOtherSku,
     DeviceNoSku}

\* Answers of GET /user/devices: a transport failure, a non-200 status, or
\* 200 with a body that holds a device list under "data" or no such key.
DevicesResponses ==
    {[error |-> TRUE, status |-> 0, json |-> EmptyDict]}
        \cup {DevicesReply(s, EmptyDict) : s \in Statuses}
        \cup {DevicesReply(HTTP_OK, [data |-> devs]) :
                 devs \in UNION {[1..n -> AccountDevices] : n \in 0..MaxDevices}}

\* (variant) the filter of line 45 dropped
is_supported_any(d) == TRUE
\* line 45
is_supported(d) == Get(d, "sku", "None") = "H600D"

\* lines 42-46: one entity per supported device, in list order
RECURSIVE build_lights(_)
build_lights(devs) ==
    IF devs = <<>> THEN <<>>
    ELSE (IF is_supported(Head(devs)) THEN <<GoveeLight(Head(devs))>> ELSE <<>>)
             \o build_lights(Tail(devs))

\* No entity has been constructed yet.
InitSetup ==
    /\ device = EmptyDict
    /\ state = FALSE
    /\ skip_next_update = FALSE
    /\ added = FALSE
    /\ tasks = <<>>
    /\ ncalls = 0
    /\ hist = <<>>
    /\ setup = [pc |-> "start", response |-> DevicesReply(0, EmptyDict)]
    /\ lights = <<>>

\* lines 18-29, up to the await of session.get
async_setup_entry ==
    /\ setup.pc = "start"
    /\ setup' = [setup EXCEPT !.pc = "awaiting"]
    /\ UNCHANGED <<device, state, skip_next_update, added, tasks, ncalls, hist,
                   lights>>

\* lines 29-47, from the await on: a transport failure propagates, a non-200
\* status returns at line 32, otherwise the entities are built and added.
async_setup_entry_resume ==
    \E r \in DevicesResponses :
        /\ setup.pc = "awaiting"
        /\ IF r.error
           THEN /\ setup' = [pc |-> "raised", response |-> r]
                /\ UNCHANGED lights
           ELSE IF r.status # HTTP_OK
           THEN /\ setup' = [pc |-> "returned", response |-> r]
                /\ UNCHANGED lights
           ELSE /\ setup' = [pc |-> "added", response |-> r]
                /\ lights' = build_lights(Get(r.json, "data", <<>>))
        /\ UNCHANGED <<device, state, skip_next_update, added, tasks, ncalls,
                       hist>>

NextSetup ==
    \/ async_setup_entry
    \/ async_setup_entry_resume

SpecSetup == InitSetup /\ [][NextSetup]_vars

\* The fetched device list, and the places in it of the supported devices.
FetchedDevices ==
    IF "data" \in DOMAIN setup.response.json
    THEN setup.response.json["data"] ELSE <<>>
SupportedAt ==
    {i \in DOMAIN FetchedDevices :
        /\ "sku" \in DOMAIN FetchedDevices[i]
        /\ FetchedDevices[i]["sku"] = "H600D"}
NthSupported(k) ==
    CHOOSE i \in SupportedAt : Cardinality({j \in SupportedAt : j < i}) = k - 1

\* C14: after a 200 answer, setup has constructed one entity for each device
\* of the fetched list whose sku is "H600D", in list order and named after
\* its deviceName, and none for any other device; after a non-200 answer it
\* has constructed none.
C14_OneLightPerSupportedDevice ==
    /\ setup.pc = "added" =>
           /\ Len(lights) = Cardinality(SupportedAt)
           /\ \A k \in DOMAIN lights :
                  /\ lights[k].device = FetchedDevices[NthSupported(k)]
                  /\ lights[k].name = FetchedDevices[NthSupported(k)]["deviceName"]
    /\ setup.pc \in {"start", "awaiting", "returned", "raised"} => lights = <<>>
    /\ (~setup.response.error /\ setup.response.status # HTTP_OK) =>
           (setup.pc # "added" /\ lights = <<>>)

C14_Witness ==
    /\ setup.pc = "added"
    /\ Len(FetchedDevices) = 3
    /\ FetchedDevices[1] = DeviceOtherSku
    /\ FetchedDevices[2] = DeviceNoCapabilities
    /\ FetchedDevices[3] = DeviceTwoSwitches
    /\ Len(lights) = 2
    /\ lights[1].name = "Bare" /\ lights[2].name = "Strip"

\* C15: with serialized calls, after a command (a failed one included) at
\* most one of the updates that follow it with no other command in between
\* is skipped, the second of them sends a request, and when that request is
\* answered 200 with an on/off item, state is what the item reports.
C15_MismatchEndsAtSecondUpdate ==
    \A i \in DOMAIN hist, j \in DOMAIN hist :
        (/\ IsCommand(hist[i])
         /\ i < j
         /\ \A k \in (i + 1)..j : IsUpdate(hist[k])) =>
            /\ Cardinality({k \in (i + 1)..j : Skipped(hist[k])}) <= 1
            /\ j >= i + 2 => Fetched(hist[i + 2])
            /\ (/\ j >= i + 2
                /\ ~hist[i + 2].resp.error
                /\ hist[i + 2].resp.status = HTTP_OK
                /\ HasOnOff(Reported(hist[i + 2]))) =>
                   hist[i + 2].post_state
                       = (FirstOnOffValue(Reported(hist[i + 2])) = 1)

C15_Witness ==
    \E i \in DOMAIN hist :
        /\ i + 2 \in DOMAIN hist
        /\ hist[i].op = "turn_on" /\ Failed(hist[i])
        /\ hist[i].pre_state = FALSE /\ hist[i].post_state = TRUE
        /\ hist[i + 1].op = "update" /\ Skipped(hist[i + 1])
        /\ hist[i + 1].post_state = TRUE
        /\ hist[i + 2].op = "update" /\ Succeeded(hist[i + 2])
        /\ FirstOnOffValue(Reported(hist[i + 2])) = 0
        /\ hist[i + 2].post_state = FALSE

\* C16: a turn_on / turn_off that receives a response returns with the flag
\* set, after a non-200 status as after 200; so the update right after a
\* failed command is skipped and leaves the optimistic state in place.
C16_FlagSetOnFailureToo ==
    \A i \in DOMAIN hist :
        /\ (IsCommand(hist[i]) /\ Returned(hist[i])) => hist[i].post_skip
        /\ (/\ IsCommand(hist[i]) /\ Failed(hist[i])
            /\ i + 1 \in DOMAIN hist
            /\ IsUpdate(hist[i + 1])) =>
               /\ Skipped(hist[i + 1])
               /\ ~Fetched(hist[i + 1])
               /\ hist[i + 1].post_state = Optimistic(hist[i])

C16_Witness ==
    \E i \in DOMAIN hist :
        /\ i + 1 \in DOMAIN hist
        /\ hist[i].op = "turn_off" /\ Failed(hist[i])
        /\ hist[i].pre_state = TRUE /\ ~hist[i].pre_skip
        /\ hist[i + 1].op = "update" /\ Skipped(hist[i + 1])
        /\ hist[i + 1].post_state = FALSE

\* ---- overlapping calls ----
\* Calls of one entity that may be suspended at the same time when the host
\* does not serialize them.
MaxTasks == 2
\* Entry-point invocations the host makes when calls overlap.
MaxOverlapCalls == 3

\* The host starts a call while others are suspended at their await; each
\* suspended call resumes when its own response arrives, in any order.
NextConc ==
    \/ (ncalls < MaxOverlapCalls /\ async_turn_on(MaxTasks))
    \/ async_turn_on_resume
    \/ (ncalls < MaxOverlapCalls /\ async_turn_off(MaxTasks))
    \/ async_turn_off_resume
    \/ (ncalls < MaxOverlapCalls /\ async_update(MaxTasks))
    \/ (ncalls < MaxOverlapCalls /\ async_added_to_hass(MaxTasks))
    \/ async_update_resume

\* The entity as constructed, for one device: the device takes no part in
\* how overlapping calls read and write state and the flag.
InitConc == Init /\ device = DeviceTwoSwitches

SpecConc == InitConc /\ [][NextConc]_vars

\* A command that got its response among the first n ended calls, with no
\* skipped update after it among them: its flag is still pending.
PendingAfter(n) ==
    \E i \in 1..n :
        /\ IsCommand(hist[i]) /\ Returned(hist[i])
        /\ \A k \in (i + 1)..n : ~Skipped(hist[k])
StartedDuringCommand(e) ==
    \E c \in e.overlaps :
        \/ \E k \in DOMAIN tasks : tasks[k].id = c /\ IsCommand(tasks[k])
        \/ \E k \in DOMAIN hist : hist[k].id = c /\ IsCommand(hist[k])

C18_SuccessReassertsState ==
    \A i \in DOMAIN hist :
        (IsCommand(hist[i]) /\ Succeeded(hist[i])) =>
            hist[i].post_state = Optimistic(hist[i])

C18_Witness ==
    /\ Len(hist) = 2
    /\ hist[1].op = "turn_on" /\ hist[1].id = 1 /\ Succeeded(hist[1])
    /\ hist[1].post_state = TRUE
    /\ hist[2].op = "turn_off" /\ hist[2].id = 2 /\ hist[2].overlaps = {1}
    /\ Failed(hist[2]) /\ hist[2].post_state = TRUE


\* ---- failures that leave the call by exception ----
TransportFailed(e) == e.outcome = "raised" /\ e.resp.error

\* C19: a call whose exchange fails at transport level ends by exception
\* after its one request. For a command the optimistic state is applied,
\* the flag keeps the value it had and no state is written to the host; for
\* an update state and flag keep their values and no state is written.
C19_TransportFailurePropagates ==
    \A i \in DOMAIN hist :
        (Fetched(hist[i]) /\ hist[i].resp.error) =>
            /\ hist[i].outcome = "raised"
            /\ hist[i].writes = 0
            /\ hist[i].post_skip = hist[i].pre_skip
            /\ IsCommand(hist[i]) => hist[i].post_state = Optimistic(hist[i])
            /\ IsUpdate(hist[i]) => hist[i].post_state = hist[i].pre_state

C19_Witness ==
    /\ Len(hist) = 3
    /\ hist[1].op = "turn_on" /\ TransportFailed(hist[1])
    /\ hist[1].pre_state = FALSE /\ hist[1].post_state = TRUE
    /\ ~hist[1].post_skip
    /\ hist[2].op = "update" /\ TransportFailed(hist[2])
    /\ hist[2].post_state = TRUE
    /\ hist[3].op = "turn_off" /\ TransportFailed(hist[3])
    /\ hist[3].post_state = FALSE

\* C20: an update that sends its request and is answered 200 with a list
\* holding no on/off item ends by exception: state and flag keep the values
\* they had and no state is written to the host.
C20_NoOnOffItemRaises ==
    \A i \in DOMAIN hist :
        (IsUpdate(hist[i]) /\ Fetched(hist[i]) /\ ~hist[i].resp.error
             /\ hist[i].resp.status = HTTP_OK /\ ~HasOnOff(Reported(hist[i]))) =>
            /\ hist[i].outcome = "raised"
            /\ hist[i].post_state = hist[i].pre_state
            /\ hist[i].post_skip = hist[i].pre_skip
            /\ hist[i].writes = 0

C20_Witness ==
    /\ Len(hist) = 2
    /\ hist[1].op = "turn_off" /\ TransportFailed(hist[1])
    /\ hist[2].op = "update" /\ hist[2].outcome = "raised"
    /\ ~hist[2].resp.error /\ hist[2].resp.status = HTTP_OK
    /\ Reported(hist[2]) = <<RangeItem(1)>>
    /\ hist[2].pre_state = FALSE /\ hist[2].post_state = FALSE

====
